---- MODULE Spec2Model ----
(***************************************************************************)
(* Payment settlement core of the credit-card backend                      *)
(* (backend/src/routes/payments.ts, shipped in src/backend/src/config/     *)
(* razorpay.ts): create-payment handler, webhook handler, the deferred     *)
(* resolution timer and processPayment with its Prisma transaction.        *)
(*                                                                         *)
(* The database is PostgreSQL accessed through Prisma with the default     *)
(* isolation level (READ COMMITTED): a transaction's writes become visible *)
(* to others at commit, every statement of a transaction reads the data    *)
(* committed when it runs, and an UPDATE of a row waits for the row lock   *)
(* held by another open transaction.                                       *)
(***************************************************************************)
EXTENDS Integers, Sequences, FiniteSets, TLC

(* ---- bounds of the model ---- *)
MaxBalance == 2
MaxPayments == 2
MaxAmount == 2
MaxWebhooks == 1
Precision == 20

(* ---- program constants ---- *)
AmountCap == 1000000

NoKey == "nokey"
NoExt == "noext"
NoCard == [userId |-> 0, status |-> "NONE"]
NoPayment == 0
NoRequest == [outstandingBalance |-> -1]

Users == {1, 2}
Methods == {"bank", "card", "instant"}
Terminal == {"SUCCESS", "FAILED"}

(* The Card table: rows the settlement core only reads. *)
CardRows ==
  (1 :> [userId |-> 1, status |-> "ACTIVE"]) @@
  (2 :> [userId |-> 2, status |-> "ACTIVE"]) @@
  (3 :> [userId |-> 1, status |-> "BLOCKED"])

(* The Statement table has two statements of card 1 and one of card 2;   *)
(* the due dates of a card are distinct and run against the id order.    *)
(* Card 2 owes more than the largest amount the create schema admits.    *)
StmtIds == {1, 2, 3}
StmtCard(s) == IF s = 3 THEN 2 ELSE 1
StmtDue(s) == 4 - s
(* balances of the unpaid statements the table starts with *)
InitBalances(s) == IF StmtCard(s) = 1 THEN 0..MaxBalance ELSE {AmountCap + 1}

(* inputs of the requests *)
ReqCardIds == {0, 1, 2, 3, 4}
ReqAmounts == (0..MaxAmount) \cup {AmountCap + 1}
ReqMethods == {"bank", "upi"}
ReqKeys == {NoKey, "k1"}
ReqExts == {"ext1"}

VARIABLES
  statements,     \* Statement table: id -> [cardId, dueDate, balance, isPaid]
  payments,       \* Payment table: sequence of rows, the index is the id
  inflight,       \* the create request suspended between validation and insert
  timers,         \* payments whose setTimeout resolution is scheduled
  txs,            \* open processPayment transactions
  notifications,  \* Notification table: payment id -> rows written for it
  activities,     \* Activity table: payment id -> rows written for it
  webhooks,       \* number of webhook deliveries so far
  keyed,          \* history: accepted create responses that carried a key
  last            \* outcome of the handler step taken last

vars == <<statements, payments, inflight, timers, txs, notifications, activities,
          webhooks, keyed, last>>

(* ---------------------------------------------------------------------- *)
(* helpers                                                                *)
(* ---------------------------------------------------------------------- *)
(* Amounts and balances are JavaScript Numbers: binary floating point,      *)
(* every result rounded to the nearest representable value, ties to the    *)
(* even significand.  The values of the model are integers, the unit any   *)
(* power of two of the currency; the significand has Precision bits where  *)
(* binary64 has 53.                                                        *)
RECURSIVE Pow2(_)
Pow2(n) == IF n = 0 THEN 1 ELSE 2 * Pow2(n - 1)

(* the distance between neighbouring representable values at magnitude a *)
RECURSIVE Spacing(_)
Spacing(a) == IF a < Pow2(Precision) THEN 1 ELSE 2 * Spacing(a \div 2)

RoundAbs(a) ==
  LET u == Spacing(a)
      lo == (a \div u) * u
      hi == lo + u
  IN IF a = lo THEN a
     ELSE IF a - lo < hi - a THEN lo
     ELSE IF a - lo > hi - a THEN hi
     ELSE IF (lo \div u) % 2 = 0 THEN lo ELSE hi

Round(x) == IF x < 0 THEN 0 - RoundAbs(0 - x) ELSE RoundAbs(x)

(* a - b and a + b on Numbers *)
NumberSub(a, b) == Round(a - b)
NumberAdd(a, b) == Round(a + b)

(* statements.reduce((s, st) => s + (Number(st.balance) || 0), 0) *)
RECURSIVE SumFrom(_, _)
SumFrom(sum, rows) ==
  IF rows = <<>> THEN sum
  ELSE SumFrom(NumberAdd(sum, Head(rows).balance), Tail(rows))

SumBalances(rows) == SumFrom(0, rows)

(* faulty variant: the cardId filter of the query is missing *)
UnpaidIdsAnyCard(stmts, cardId) ==
  {s \in StmtIds : ~stmts[s].isPaid}

(* statement.findMany({where: {cardId, isPaid: false}}) : ids of the rows *)
UnpaidIds(stmts, cardId) ==
  {s \in StmtIds : stmts[s].cardId = cardId /\ ~stmts[s].isPaid}

(* faulty variant: the rows come back in id order, not in due-date order *)
RECURSIVE OrderById(_, _)
OrderById(stmts, ids) ==
  IF ids = {} THEN <<>>
  ELSE LET first == CHOOSE s \in ids : \A u \in ids : s <= u
       IN <<[id |-> first, dueDate |-> stmts[first].dueDate,
             balance |-> stmts[first].balance]>>
          \o OrderById(stmts, ids \ {first})

(* orderBy: {dueDate: 'asc'} : the rows as [id, dueDate, balance] *)
RECURSIVE OrderByDueDate(_, _)
OrderByDueDate(stmts, ids) ==
  IF ids = {} THEN <<>>
  ELSE LET first == CHOOSE s \in ids :
                      \A u \in ids : stmts[s].dueDate <= stmts[u].dueDate
       IN <<[id |-> first, dueDate |-> stmts[first].dueDate,
             balance |-> stmts[first].balance]>>
          \o OrderByDueDate(stmts, ids \ {first})

FindUnpaid(stmts, cardId) == OrderByDueDate(stmts, UnpaidIds(stmts, cardId))

(* statements.reduce((sum, s) => sum + Number(s.balance), 0) *)
Outstanding(stmts, cardId) == SumBalances(FindUnpaid(stmts, cardId))

normalizeStatus(status) ==
  CASE status = "PENDING" -> "pending"
    [] status = "SUCCESS" -> "success"
    [] status = "FAILED" -> "failed"
    [] OTHER -> status

(* ---------------------------------------------------------------------- *)
(* POST /api/payments                                                     *)
(* ---------------------------------------------------------------------- *)
Requests ==
  [userId : Users, cardId : ReqCardIds, amount : ReqAmounts,
   method : ReqMethods, key : ReqKeys]

(* createPaymentSchema through validateBody *)
createPaymentSchema(req) ==
  /\ req.cardId > 0
  /\ req.amount > 0
  /\ req.amount <= AmountCap
  /\ req.method \in Methods

(* card.findFirst({where: {id: cardId, userId}}) *)
FindCard(cardId, userId) ==
  IF cardId \in DOMAIN CardRows /\ CardRows[cardId].userId = userId
  THEN CardRows[cardId] ELSE NoCard

(* faulty variant: the balance check rejects an amount equal to the balance *)
ValidateStrict(req, stmts) ==
  IF ~createPaymentSchema(req) THEN "VALIDATION_ERROR"
  ELSE IF FindCard(req.cardId, req.userId) = NoCard THEN "NotFoundError"
  ELSE IF FindCard(req.cardId, req.userId).status # "ACTIVE" THEN "ForbiddenError"
  ELSE IF req.amount >= Outstanding(stmts, req.cardId) THEN "ValidationError"
  ELSE "passed"

(* the checks of the handler in the order the code makes them *)
Validate(req, stmts) ==
  IF ~createPaymentSchema(req) THEN "VALIDATION_ERROR"
  ELSE IF FindCard(req.cardId, req.userId) = NoCard THEN "NotFoundError"
  ELSE IF FindCard(req.cardId, req.userId).status # "ACTIVE" THEN "ForbiddenError"
  ELSE IF req.amount > Outstanding(stmts, req.cardId) THEN "ValidationError"
  ELSE "passed"

Rejections == {"VALIDATION_ERROR", "NotFoundError", "ForbiddenError", "ValidationError"}

Outcome(op, kind, pid, status, bal) ==
  [op |-> op, kind |-> kind, paymentId |-> pid, status |-> status, newBalance |-> bal]

Init ==
  /\ \E b \in [StmtIds -> (0..MaxBalance) \cup {AmountCap + 1}] :
       /\ \A s \in StmtIds : b[s] \in InitBalances(s)
       /\ statements = [s \in StmtIds |->
                          [cardId |-> StmtCard(s), dueDate |-> StmtDue(s),
                           balance |-> b[s], isPaid |-> FALSE]]
  /\ payments = <<>>
  /\ inflight = NoRequest
  /\ timers = {}
  /\ txs = {}
  /\ notifications = [p \in 1..MaxPayments |-> 0]
  /\ activities = [p \in 1..MaxPayments |-> 0]
  /\ webhooks = 0
  /\ keyed = {}
  /\ last = Outcome("init", "none", NoPayment, "none", 0)

(* faulty variant: the row is inserted as already settled *)
NewPaymentSettled(req) ==
  [cardId |-> req.cardId, userId |-> req.userId, amount |-> req.amount,
   method |-> req.method, status |-> "SUCCESS", externalId |-> NoExt,
   idempotencyKey |-> NoKey]

(* the row written by payment.create: the key is not part of the data *)
NewPayment(req) ==
  [cardId |-> req.cardId, userId |-> req.userId, amount |-> req.amount,
   method |-> req.method, status |-> "PENDING", externalId |-> NoExt,
   idempotencyKey |-> NoKey]

(* faulty variant: the Payment row is written before the balance check *)
PostPaymentValidateEager(req) ==
  LET kind == Validate(req, statements) IN
  IF kind \in Rejections
  THEN /\ last' = Outcome("create", kind, NoPayment, "none", 0)
       /\ payments' = IF kind = "ValidationError" /\ Len(payments) < MaxPayments
                      THEN Append(payments, NewPayment(req)) ELSE payments
       /\ UNCHANGED <<statements, inflight, timers, txs, notifications,
                      activities, webhooks, keyed>>
  ELSE /\ inflight = NoRequest
       /\ Len(payments) < MaxPayments
       /\ inflight' = [req |-> req,
                       outstandingBalance |-> Outstanding(statements, req.cardId)]
       /\ last' = Outcome("validate", "passed", NoPayment, "none", 0)
       /\ UNCHANGED <<statements, payments, timers, txs, notifications, activities,
                      webhooks, keyed>>

(* ---- POST /api/payments, up to the balance check ---- *)
PostPaymentValidate(req) ==
  LET kind == Validate(req, statements) IN
  IF kind \in Rejections
  THEN /\ last' = Outcome("create", kind, NoPayment, "none", 0)
       /\ UNCHANGED <<statements, payments, inflight, timers, txs, notifications,
                      activities, webhooks, keyed>>
  ELSE /\ inflight = NoRequest
       /\ Len(payments) < MaxPayments
       /\ inflight' = [req |-> req,
                       outstandingBalance |-> Outstanding(statements, req.cardId)]
       /\ last' = Outcome("validate", "passed", NoPayment, "none", 0)
       /\ UNCHANGED <<statements, payments, timers, txs, notifications, activities,
                      webhooks, keyed>>

(* payment.findFirst({where: {idempotencyKey}}) on a schema that has the column *)
FindByIdempotencyKey(rows, key) ==
  IF \E p \in DOMAIN rows : rows[p].idempotencyKey = key
  THEN CHOOSE p \in DOMAIN rows :
         /\ rows[p].idempotencyKey = key
         /\ \A q \in DOMAIN rows : rows[q].idempotencyKey = key => p <= q
  ELSE NoPayment

(* faulty variant: the error of the idempotency lookup is not caught *)
PostPaymentCreateUncaught(lookupThrows) ==
  /\ inflight # NoRequest
  /\ LET req == inflight.req
         existing == IF req.key = NoKey THEN NoPayment
                     ELSE FindByIdempotencyKey(payments, req.key)
         pid == Len(payments) + 1
     IN
     IF req.key # NoKey /\ lookupThrows
     THEN /\ last' = Outcome("create", "error", NoPayment, "none", 0)
          /\ UNCHANGED <<payments, timers, keyed>>
     ELSE IF existing # NoPayment
     THEN /\ last' = Outcome("create", "idempotent", existing,
                             normalizeStatus(payments[existing].status),
                             Outstanding(statements, req.cardId))
                     @@ [amount |-> payments[existing].amount,
                         method |-> payments[existing].method]
          /\ keyed' = keyed \cup {[req |-> req, paymentId |-> existing]}
          /\ UNCHANGED <<payments, timers>>
     ELSE /\ payments' = Append(payments, NewPayment(req))
          /\ timers' = timers \cup {pid}
          /\ last' = Outcome("create", "created", pid,
                             normalizeStatus(NewPayment(req).status),
                             inflight.outstandingBalance)
                     @@ [amount |-> NewPayment(req).amount,
                         method |-> NewPayment(req).method]
          /\ keyed' = IF req.key = NoKey THEN keyed
                      ELSE keyed \cup {[req |-> req, paymentId |-> pid]}
  /\ inflight' = NoRequest
  /\ UNCHANGED <<statements, txs, notifications, activities, webhooks>>

(* faulty variant: the replay answers with the balance read at validation *)
PostPaymentCreateStale(lookupThrows) ==
  /\ inflight # NoRequest
  /\ LET req == inflight.req
         existing == IF req.key = NoKey \/ lookupThrows THEN NoPayment
                     ELSE FindByIdempotencyKey(payments, req.key)
         pid == Len(payments) + 1
     IN
     IF existing # NoPayment
     THEN /\ last' = Outcome("create", "idempotent", existing,
                             normalizeStatus(payments[existing].status),
                             inflight.outstandingBalance)
                     @@ [amount |-> payments[existing].amount,
                         method |-> payments[existing].method]
          /\ keyed' = keyed \cup {[req |-> req, paymentId |-> existing]}
          /\ UNCHANGED <<payments, timers>>
     ELSE /\ payments' = Append(payments, NewPayment(req))
          /\ timers' = timers \cup {pid}
          /\ last' = Outcome("create", "created", pid,
                             normalizeStatus(NewPayment(req).status),
                             inflight.outstandingBalance)
                     @@ [amount |-> NewPayment(req).amount,
                         method |-> NewPayment(req).method]
          /\ keyed' = IF req.key = NoKey THEN keyed
                      ELSE keyed \cup {[req |-> req, paymentId |-> pid]}
  /\ inflight' = NoRequest
  /\ UNCHANGED <<statements, txs, notifications, activities, webhooks>>

(* ---- POST /api/payments, from the idempotency check to the response ---- *)
(* lookupThrows: the findFirst on idempotencyKey throws when the Payment    *)
(* model has no such column; the catch block then continues.               *)
PostPaymentCreate(lookupThrows) ==
  /\ inflight # NoRequest
  /\ LET req == inflight.req
         existing == IF req.key = NoKey \/ lookupThrows THEN NoPayment
                     ELSE FindByIdempotencyKey(payments, req.key)
         pid == Len(payments) + 1
     IN
     IF existing # NoPayment
     THEN /\ last' = Outcome("create", "idempotent", existing,
                             normalizeStatus(payments[existing].status),
                             Outstanding(statements, req.cardId))
                     @@ [amount |-> payments[existing].amount,
                         method |-> payments[existing].method]
          /\ keyed' = keyed \cup {[req |-> req, paymentId |-> existing]}
          /\ UNCHANGED <<payments, timers>>
     ELSE /\ payments' = Append(payments, NewPayment(req))
          /\ timers' = timers \cup {pid}
          /\ last' = Outcome("create", "created", pid,
                             normalizeStatus(NewPayment(req).status),
                             inflight.outstandingBalance)
                     @@ [amount |-> NewPayment(req).amount,
                         method |-> NewPayment(req).method]
          /\ keyed' = IF req.key = NoKey THEN keyed
                      ELSE keyed \cup {[req |-> req, paymentId |-> pid]}
  /\ inflight' = NoRequest
  /\ UNCHANGED <<statements, txs, notifications, activities, webhooks>>

(* ---------------------------------------------------------------------- *)
(* processPayment                                                         *)
(* ---------------------------------------------------------------------- *)
(* faulty variant: the comparison of the loop is inverted *)
RECURSIVE StatementLoopInverted(_, _)
StatementLoopInverted(rows, remainingAmount) ==
  IF rows = <<>> \/ remainingAmount <= 0 THEN <<>>
  ELSE LET statement == Head(rows) IN
       IF remainingAmount <= statement.balance
       THEN <<[id |-> statement.id, isPaid |-> TRUE, balance |-> 0]>>
            \o StatementLoopInverted(Tail(rows), remainingAmount - statement.balance)
       ELSE <<[id |-> statement.id, isPaid |-> FALSE,
               balance |-> statement.balance - remainingAmount]>>
            \o StatementLoopInverted(Tail(rows), 0)

(* the for-loop over the statements read: the updates it issues, in order *)
RECURSIVE StatementLoop(_, _)
StatementLoop(rows, remainingAmount) ==
  IF rows = <<>> \/ remainingAmount <= 0 THEN <<>>
  ELSE LET statement == Head(rows) IN
       IF remainingAmount >= statement.balance
       THEN <<[id |-> statement.id, isPaid |-> TRUE, balance |-> 0]>>
            \o StatementLoop(Tail(rows), NumberSub(remainingAmount, statement.balance))
       ELSE <<[id |-> statement.id, isPaid |-> FALSE,
               balance |-> NumberSub(statement.balance, remainingAmount)]>>
            \o StatementLoop(Tail(rows), 0)

(* faulty variant: the payoff update marks the statement paid and keeps its balance *)
ApplyUpdatesKeepBalance(stmts, updates) ==
  [s \in StmtIds |->
     IF \E k \in DOMAIN updates : updates[k].id = s
     THEN LET u == updates[CHOOSE k \in DOMAIN updates : updates[k].id = s] IN
          IF u.isPaid
          THEN [stmts[s] EXCEPT !.isPaid = TRUE]
          ELSE [stmts[s] EXCEPT !.balance = u.balance]
     ELSE stmts[s]]

(* statement.update({where: {id}, data}): the payoff writes isPaid and      *)
(* balance, the partial payment writes balance only                        *)
ApplyUpdates(stmts, updates) ==
  [s \in StmtIds |->
     IF \E k \in DOMAIN updates : updates[k].id = s
     THEN LET u == updates[CHOOSE k \in DOMAIN updates : updates[k].id = s] IN
          IF u.isPaid
          THEN [stmts[s] EXCEPT !.isPaid = TRUE, !.balance = 0]
          ELSE [stmts[s] EXCEPT !.balance = u.balance]
     ELSE stmts[s]]

(* payment.update({data: {status, externalId}}): undefined leaves the field *)
UpdatePayment(row, status, externalId) ==
  [row EXCEPT !.status = status,
              !.externalId = IF externalId = NoExt THEN @ ELSE externalId]

(* faulty variant: the error of activity.create is thrown on *)
logActivityRethrow(writeFails) ==
  [created |-> ~writeFails, threw |-> writeFails]

(* logActivity: activity.create in a try/catch that swallows the error *)
logActivity(writeFails) ==
  [created |-> ~writeFails, threw |-> FALSE]

(* faulty variant: the error of the notification write is thrown on *)
createPaymentNotificationRethrow(notifyFails) ==
  [created |-> ~notifyFails, threw |-> notifyFails]

(* createPaymentSuccessNotification / createPaymentFailedNotification of    *)
(* utils/notifications: one Notification row; a failed write is caught and *)
(* logged inside the helper                                                *)
createPaymentNotification(notifyFails) ==
  [created |-> ~notifyFails, threw |-> FALSE]

Locked(p) == \E t \in txs : t.paymentId = p

(* faulty variant: the statements are read and paid whatever the status *)
RunTxAnyStatus(p, status, externalId, source, writeFails, notifyFails) ==
  LET notified == createPaymentNotification(notifyFails)
      logged == logActivity(writeFails)
  IN
  /\ notifications' = [notifications EXCEPT ![p] = IF notified.created THEN @ + 1 ELSE @]
  /\ activities' = [activities EXCEPT ![p] =
                      IF ~notified.threw /\ logged.created THEN @ + 1 ELSE @]
  /\ IF notified.threw \/ logged.threw
     THEN /\ last' = Outcome(source, "error", p, "none", 0)
          /\ UNCHANGED txs
     ELSE /\ txs' = txs \cup
               {[paymentId |-> p, status |-> status, externalId |-> externalId,
                 source |-> source, auditFailed |-> ~logged.created,
                 notifyFailed |-> ~notified.created,
                 rows |-> FindUnpaid(statements, payments[p].cardId)]}
          /\ last' = Outcome("tx", "running", NoPayment, "none", 0)

(* The callback of $transaction up to its end: tx.payment.update takes the *)
(* row lock of the payment; for SUCCESS tx.statement.findMany reads the     *)
(* committed unpaid statements and the loop issues its updates; then the   *)
(* notification and logActivity run.  Nothing is visible before the commit. *)
(* An error thrown by a side effect leaves the callback: rollback.           *)
RunTx(p, status, externalId, source, writeFails, notifyFails) ==
  LET notified == createPaymentNotification(notifyFails)
      logged == logActivity(writeFails)
  IN
  /\ notifications' = [notifications EXCEPT ![p] = IF notified.created THEN @ + 1 ELSE @]
  /\ activities' = [activities EXCEPT ![p] =
                      IF ~notified.threw /\ logged.created THEN @ + 1 ELSE @]
  /\ IF notified.threw \/ logged.threw
     THEN /\ last' = Outcome(source, "error", p, "none", 0)
          /\ UNCHANGED txs
     ELSE /\ txs' = txs \cup
               {[paymentId |-> p, status |-> status, externalId |-> externalId,
                 source |-> source, auditFailed |-> ~logged.created,
                 notifyFailed |-> ~notified.created,
                 rows |-> IF status = "SUCCESS"
                          THEN FindUnpaid(statements, payments[p].cardId) ELSE <<>>]}
          /\ last' = Outcome("tx", "running", NoPayment, "none", 0)

(* faulty variant: the callback returns without calling processPayment *)
TimerFireDropped(p, finalStatus, writeFails, notifyFails) ==
  /\ p \in timers
  /\ ~Locked(p)
  /\ timers' = timers \ {p}
  /\ last' = Outcome("timer", "skipped", NoPayment, "none", 0)
  /\ UNCHANGED <<statements, payments, inflight, txs, notifications, activities,
                 webhooks, keyed>>

(* ---- the setTimeout callback of the create handler ---- *)
TimerFire(p, finalStatus, writeFails, notifyFails) ==
  /\ p \in timers
  /\ ~Locked(p)
  /\ timers' = timers \ {p}
  /\ RunTx(p, finalStatus, NoExt, "timer", writeFails, notifyFails)
  /\ UNCHANGED <<statements, payments, inflight, webhooks, keyed>>

(* ---- POST /api/payments/webhook ---- *)
Webhook(p, status, externalId, writeFails, notifyFails) ==
  /\ webhooks < MaxWebhooks
  /\ webhooks' = webhooks + 1
  /\ IF p \notin DOMAIN payments
     THEN /\ last' = Outcome("webhook", "NotFoundError", NoPayment, "none", 0)
          /\ UNCHANGED <<txs, notifications, activities>>
     ELSE /\ ~Locked(p)
          /\ RunTx(p, status, externalId, "webhook", writeFails, notifyFails)
  /\ UNCHANGED <<statements, payments, inflight, timers, keyed>>

(* faulty variant: the statement updates are written outside the           *)
(* transaction of the Payment update                                       *)
TxCommitStatementsOnly(t) ==
  /\ t \in txs
  /\ statements' = ApplyUpdates(statements,
                      StatementLoop(t.rows, payments[t.paymentId].amount))
  /\ txs' = txs \ {t}
  /\ last' = Outcome(t.source, "ok", t.paymentId, t.status, 0)
  /\ UNCHANGED <<payments, inflight, timers, notifications, activities,
                 webhooks, keyed>>

(* ---- the transaction commits: its writes become visible ---- *)
TxCommit(t) ==
  /\ t \in txs
  /\ payments' = [payments EXCEPT ![t.paymentId] =
                    UpdatePayment(@, t.status, t.externalId)]
  /\ statements' = ApplyUpdates(statements,
                      StatementLoop(t.rows, payments[t.paymentId].amount))
  /\ txs' = txs \ {t}
  /\ last' = Outcome(t.source, "ok", t.paymentId, t.status, 0)
  /\ UNCHANGED <<inflight, timers, notifications, activities, webhooks, keyed>>

(* faulty variant: the Payment update is kept when the rest is rolled back *)
TxAbortPartial(t) ==
  /\ t \in txs
  /\ payments' = [payments EXCEPT ![t.paymentId] =
                    UpdatePayment(@, t.status, t.externalId)]
  /\ txs' = txs \ {t}
  /\ last' = Outcome(t.source, "error", t.paymentId, "none", 0)
  /\ UNCHANGED <<statements, inflight, timers, notifications,
                 activities, webhooks, keyed>>

(* ---- a storage failure ends the transaction: rollback, the error ---- *)
(* ---- leaves processPayment                                        ---- *)
TxAbort(t) ==
  /\ t \in txs
  /\ txs' = txs \ {t}
  /\ last' = Outcome(t.source, "error", t.paymentId, "none", 0)
  /\ UNCHANGED <<statements, payments, inflight, timers, notifications,
                 activities, webhooks, keyed>>

(* ---- POST /api/payments/razorpay/verify ---- *)
(* the row written by payment.create of the verify route *)
VerifiedPayment(userId, cardId, amount, razorpayPaymentId) ==
  [cardId |-> cardId, userId |-> userId, amount |-> amount,
   method |-> "razorpay", status |-> "SUCCESS", externalId |-> razorpayPaymentId,
   idempotencyKey |-> NoKey]

(* card.findFirst({where: {userId}}): any card of the user, 0 for none *)
UserCards(userId) ==
  IF \E c \in DOMAIN CardRows : CardRows[c].userId = userId
  THEN {c \in DOMAIN CardRows : CardRows[c].userId = userId}
  ELSE {0}

(* faulty variant: the verify route pays the statements of the card *)
RazorpayVerifyApplies(cardId, amount, razorpayPaymentId, createFails, writeFails, notifyFails) ==
  LET pid == Len(payments) + 1
      logged == logActivity(writeFails)
      notified == createPaymentNotification(notifyFails)
  IN
  /\ Len(payments) < MaxPayments
  /\ cardId \in UserCards(1)
  /\ IF createFails
     THEN /\ last' = Outcome("verify", "error", NoPayment, "none", 0)
          /\ UNCHANGED <<payments, notifications, activities, statements>>
     ELSE /\ payments' = Append(payments,
                             VerifiedPayment(1, cardId, amount, razorpayPaymentId))
          /\ statements' = ApplyUpdates(statements,
                              StatementLoop(FindUnpaid(statements, cardId), amount))
          /\ activities' = [activities EXCEPT ![pid] =
                              IF logged.created THEN @ + 1 ELSE @]
          /\ notifications' = [notifications EXCEPT ![pid] =
                                 IF ~logged.threw /\ notified.created THEN @ + 1 ELSE @]
          /\ last' = IF logged.threw \/ notified.threw
                     THEN Outcome("verify", "error", pid, "none", 0)
                     ELSE Outcome("verify", "ok", pid, "SUCCESS", 0)
  /\ UNCHANGED <<inflight, timers, txs, webhooks, keyed>>

(* Without an authorization header the user is 1.  The amount is the one    *)
(* the gateway reports.  createFails: payment.create throws and the route  *)
(* answers 500.  logActivity and the notification follow the insert.       *)
RazorpayVerify(cardId, amount, razorpayPaymentId, createFails, writeFails, notifyFails) ==
  LET pid == Len(payments) + 1
      logged == logActivity(writeFails)
      notified == createPaymentNotification(notifyFails)
  IN
  /\ Len(payments) < MaxPayments
  /\ cardId \in UserCards(1)
  /\ IF createFails
     THEN /\ last' = Outcome("verify", "error", NoPayment, "none", 0)
          /\ UNCHANGED <<payments, notifications, activities>>
     ELSE /\ payments' = Append(payments,
                             VerifiedPayment(1, cardId, amount, razorpayPaymentId))
          /\ activities' = [activities EXCEPT ![pid] =
                              IF logged.created THEN @ + 1 ELSE @]
          /\ notifications' = [notifications EXCEPT ![pid] =
                                 IF ~logged.threw /\ notified.created THEN @ + 1 ELSE @]
          /\ last' = IF logged.threw \/ notified.threw
                     THEN Outcome("verify", "error", pid, "none", 0)
                     ELSE Outcome("verify", "ok", pid, "SUCCESS", 0)
  /\ UNCHANGED <<statements, inflight, timers, txs, webhooks, keyed>>

(* well-formed requests of a card's owner, without an idempotency key *)
PlainRequests ==
  {req \in Requests :
     /\ req.key = NoKey
     /\ createPaymentSchema(req)
     /\ FindCard(req.cardId, req.userId) \notin {NoCard, CardRows[3]}}

Resolve ==
  \/ \E p \in timers, finalStatus \in Terminal, writeFails \in BOOLEAN :
       TimerFire(p, finalStatus, writeFails, FALSE)
  \/ \E p \in 1..(Len(payments) + 1), status \in Terminal, externalId \in ReqExts,
        writeFails \in BOOLEAN :
       Webhook(p, status, externalId, writeFails, FALSE)
  \/ \E t \in txs : TxCommit(t)
  \/ \E t \in txs : TxAbort(t)

(* the settlement of payments that well-formed requests create *)
Next ==
  \/ \E req \in PlainRequests : PostPaymentValidate(req)
  \/ \E lookupThrows \in BOOLEAN : PostPaymentCreate(lookupThrows)
  \/ Resolve

Spec == Init /\ [][Next]_vars

(* every create request, resolved by the timers alone *)
NextCreate ==
  \/ \E req \in Requests : PostPaymentValidate(req)
  \/ \E lookupThrows \in BOOLEAN : PostPaymentCreate(lookupThrows)
  \/ \E p \in timers, finalStatus \in Terminal :
       TimerFire(p, finalStatus, FALSE, FALSE)
  \/ \E t \in txs : TxCommit(t)

SpecCreate == Init /\ [][NextCreate]_vars

(* requests of user 1 on card 1, without a key *)
CardOneRequests == {req \in PlainRequests : req.cardId = 1}

(* both ways a Payment comes to exist, and the resolutions with their      *)
(* notification failing or not                                             *)
NextEffects ==
  \/ \E req \in CardOneRequests : PostPaymentValidate(req)
  \/ \E lookupThrows \in BOOLEAN : PostPaymentCreate(lookupThrows)
  \/ \E cardId \in UserCards(1), amount \in 1..MaxAmount, razorpayPaymentId \in ReqExts,
        createFails \in BOOLEAN, writeFails \in BOOLEAN, notifyFails \in BOOLEAN :
       RazorpayVerify(cardId, amount, razorpayPaymentId, createFails, writeFails,
                      notifyFails)
  \/ \E p \in timers, finalStatus \in Terminal, notifyFails \in BOOLEAN :
       TimerFire(p, finalStatus, FALSE, notifyFails)
  \/ \E p \in 1..(Len(payments) + 1), status \in Terminal, externalId \in ReqExts,
        notifyFails \in BOOLEAN :
       Webhook(p, status, externalId, FALSE, notifyFails)
  \/ \E t \in txs : TxCommit(t)

(* every statement of card 1 starts with the largest balance *)
InitEffects ==
  /\ Init
  /\ \A s \in StmtIds : StmtCard(s) = 1 => statements[s].balance = MaxBalance

SpecEffects == InitEffects /\ [][NextEffects]_vars

(* Payments of card 1 resolved by their timers alone; the audit write and   *)
(* the transaction may fail                                                *)
NextLive ==
  \/ \E req \in CardOneRequests : PostPaymentValidate(req)
  \/ \E lookupThrows \in BOOLEAN : PostPaymentCreate(lookupThrows)
  \/ \E p \in timers, finalStatus \in Terminal, writeFails \in BOOLEAN :
       TimerFire(p, finalStatus, writeFails, FALSE)
  \/ \E t \in txs : TxCommit(t)
  \/ \E t \in txs : TxAbort(t)

(* setTimeout runs the callback of every Payment it was armed for, and a    *)
(* transaction that was started ends, by commit or by rollback              *)
Fairness ==
  /\ \A p \in 1..MaxPayments :
       WF_vars(\E finalStatus \in Terminal, writeFails \in BOOLEAN :
                 TimerFire(p, finalStatus, writeFails, FALSE))
  /\ WF_vars(\E t \in txs : TxCommit(t) \/ TxAbort(t))

SpecLive == InitEffects /\ [][NextLive]_vars /\ Fairness

(* The statement of card 1 that is due first holds a balance at which the   *)
(* representable values are 2 apart; the other statement holds nothing.    *)
InitOrder ==
  /\ statements = [s \in StmtIds |->
                     [cardId |-> StmtCard(s), dueDate |-> StmtDue(s),
                      balance |-> IF s = 2 THEN Pow2(Precision + 1)
                                  ELSE IF s = 1 THEN 0 ELSE AmountCap + 1,
                      isPaid |-> FALSE]]
  /\ payments = <<>>
  /\ inflight = NoRequest
  /\ timers = {}
  /\ txs = {}
  /\ notifications = [p \in 1..MaxPayments |-> 0]
  /\ activities = [p \in 1..MaxPayments |-> 0]
  /\ webhooks = 0
  /\ keyed = {}
  /\ last = Outcome("init", "none", NoPayment, "none", 0)

(* payments of card 1, resolved by their timers *)
NextOrder ==
  \/ \E req \in CardOneRequests : PostPaymentValidate(req)
  \/ \E lookupThrows \in BOOLEAN : PostPaymentCreate(lookupThrows)
  \/ \E p \in timers, finalStatus \in Terminal, writeFails \in BOOLEAN :
       TimerFire(p, finalStatus, writeFails, FALSE)
  \/ \E t \in txs : TxCommit(t)

SpecOrder == InitOrder /\ [][NextOrder]_vars

(* A Payment table whose schema has the idempotencyKey column and that     *)
(* holds one Payment of user 1 on card 1 stored with a key; the create     *)
(* handler itself never writes the column.  A PENDING Payment still has    *)
(* its resolution ahead.                                                   *)
InitReplay ==
  /\ \E b \in [StmtIds -> (0..MaxBalance) \cup {AmountCap + 1}] :
       /\ \A s \in StmtIds : b[s] \in InitBalances(s)
       /\ statements = [s \in StmtIds |->
                          [cardId |-> StmtCard(s), dueDate |-> StmtDue(s),
                           balance |-> b[s], isPaid |-> FALSE]]
  /\ \E amount \in 1..MaxAmount, status \in {"PENDING"} \cup Terminal :
       /\ payments = <<[cardId |-> 1, userId |-> 1, amount |-> amount,
                        method |-> "card", status |-> status, externalId |-> NoExt,
                        idempotencyKey |-> "k1"]>>
       /\ timers = IF status = "PENDING" THEN {1} ELSE {}
  /\ inflight = NoRequest
  /\ txs = {}
  /\ notifications = [p \in 1..MaxPayments |-> 0]
  /\ activities = [p \in 1..MaxPayments |-> 0]
  /\ webhooks = 0
  /\ keyed = {}
  /\ last = Outcome("init", "none", NoPayment, "none", 0)

(* well-formed requests of user 1 on card 1, with and without a key *)
ReplayRequests ==
  {req \in Requests :
     createPaymentSchema(req) /\ req.userId = 1 /\ req.cardId = 1}

(* the create handler on a table that holds a keyed Payment *)
NextReplay ==
  \/ \E req \in ReplayRequests : PostPaymentValidate(req)
  \/ \E lookupThrows \in BOOLEAN : PostPaymentCreate(lookupThrows)
  \/ \E p \in timers, finalStatus \in Terminal :
       TimerFire(p, finalStatus, FALSE, FALSE)
  \/ \E t \in txs : TxCommit(t)

SpecReplay == InitReplay /\ [][NextReplay]_vars

(* ---------------------------------------------------------------------- *)
(* properties                                                             *)
(* ---------------------------------------------------------------------- *)
(* the step commits transaction t *)
Commits(t) ==
  /\ t \in txs
  /\ t \notin txs'
  /\ last'.kind = "ok"
  /\ last'.paymentId = t.paymentId

AmountOf(t) == payments[t.paymentId].amount
CardOf(t) == payments[t.paymentId].cardId
RowIds(rows) == {rows[k].id : k \in DOMAIN rows}

(* C1: a SUCCESS resolution that commits for a Payment already in SUCCESS   *)
(* changes no statement balance: a duplicate SUCCESS is applied only once. *)
NoDoubleApplication ==
  [][\A t \in txs :
       (Commits(t) /\ t.status = "SUCCESS" /\ payments[t.paymentId].status = "SUCCESS")
         => \A s \in StmtIds : statements'[s].balance = statements[s].balance]_vars

(* a Payment in SUCCESS is resolved to SUCCESS once more *)
DuplicateSuccessPending ==
  \E t \in txs :
    /\ t.status = "SUCCESS"
    /\ payments[t.paymentId].status = "SUCCESS"
    /\ t.rows # <<>>

(* C2: create requests that carry the same Idempotency-Key and the same    *)
(* parameters are answered with one and the same payment id, so one        *)
(* Payment is stored for them.                                             *)
IdempotentCreation ==
  \A a \in keyed : \A b \in keyed :
    a.req = b.req => a.paymentId = b.paymentId

(* C3: once a Payment is SUCCESS or FAILED no step changes its status. *)
TerminalStatusImmutable ==
  [][\A p \in DOMAIN payments :
       payments[p].status \in Terminal
         => payments'[p].status = payments[p].status]_vars

(* C4: a SUCCESS resolution that commits changes the statements to what the *)
(* FIFO application of its amount gives on the balances committed at that  *)
(* moment, so concurrent resolutions on a card act as if run one by one.   *)
SerialApplication ==
  [][\A t \in txs :
       (Commits(t) /\ t.status = "SUCCESS")
         => statements' =
              ApplyUpdates(statements,
                StatementLoop(FindUnpaid(statements, CardOf(t)), AmountOf(t)))]_vars

(* C5: every statement balance is at least zero, in every reachable state. *)
BalancesNonNegative ==
  \A s \in StmtIds : statements[s].balance >= 0

(* a SUCCESS resolution has committed on balances read before another one  *)
(* committed: a paid statement carries a balance again                     *)
StaleCommitHappened ==
  /\ last.kind = "ok"
  /\ last.status = "SUCCESS"
  /\ \E s \in StmtIds : statements[s].isPaid /\ statements[s].balance > 0

(* the row read for statement s, the rows due before it, what is left of   *)
(* the amount when the loop reaches it                                     *)
RowOf(rows, s) == rows[CHOOSE k \in DOMAIN rows : rows[k].id = s]
EarlierIds(rows, s) ==
  {rows[k].id : k \in {j \in DOMAIN rows : rows[j].dueDate < RowOf(rows, s).dueDate}}
RECURSIVE SumOfIds(_, _)
SumOfIds(rows, ids) ==
  IF ids = {} THEN 0
  ELSE LET e == CHOOSE x \in ids : TRUE
       IN RowOf(rows, e).balance + SumOfIds(rows, ids \ {e})
RemainingAt(rows, s, amount) ==
  LET before == SumOfIds(rows, EarlierIds(rows, s))
  IN IF amount > before THEN amount - before ELSE 0

(* C6 as stated: the amount goes to the unpaid statements in ascending      *)
(* due-date order; a balance is reduced only when every statement due      *)
(* earlier is at 0 and paid; a statement is paid exactly when what remains  *)
(* covers its balance, else its balance drops by what remains and it stays *)
(* unpaid.                                                                 *)
FifoAsStated ==
  [][\A t \in txs :
       (Commits(t) /\ t.status = "SUCCESS") =>
         \A s \in RowIds(t.rows) :
           LET row == RowOf(t.rows, s)
               rem == RemainingAt(t.rows, s, AmountOf(t))
           IN /\ statements'[s].balance < statements[s].balance =>
                   \A e \in EarlierIds(t.rows, s) :
                      statements'[e].isPaid /\ statements'[e].balance = 0
              /\ statements'[s].isPaid <=> rem >= row.balance
              /\ rem < row.balance =>
                   /\ statements'[s].balance = row.balance - rem
                   /\ ~statements'[s].isPaid]_vars

(* C6 amended: over the unpaid statements the resolution read, in ascending *)
(* due-date order: a statement is written only when every statement due    *)
(* earlier is set to 0 and paid; a statement is set to 0 and paid exactly   *)
(* when what remains is positive and covers the balance read; when what    *)
(* remains is positive and smaller, the balance becomes the balance read   *)
(* minus what remains and the paid flag is left alone; when nothing        *)
(* remains the statement is not written.                                   *)
FifoApplication ==
  [][\A t \in txs :
       (Commits(t) /\ t.status = "SUCCESS") =>
         \A s \in RowIds(t.rows) :
           LET row == RowOf(t.rows, s)
               rem == RemainingAt(t.rows, s, AmountOf(t))
           IN /\ statements'[s] # statements[s] =>
                   \A e \in EarlierIds(t.rows, s) :
                      statements'[e].isPaid /\ statements'[e].balance = 0
              /\ (rem > 0 /\ rem >= row.balance) =>
                   statements'[s].isPaid /\ statements'[s].balance = 0
              /\ (rem > 0 /\ rem < row.balance) =>
                   /\ statements'[s].balance = row.balance - rem
                   /\ statements'[s].isPaid = statements[s].isPaid
              /\ rem = 0 => statements'[s] = statements[s]]_vars

(* a SUCCESS resolution read two unpaid statements and its amount pays off *)
(* the one due first and part of the other                                 *)
FifoPayoffThenPartial ==
  \E t \in txs :
    /\ t.status = "SUCCESS"
    /\ Len(t.rows) = 2
    /\ t.rows[1].dueDate < t.rows[2].dueDate
    /\ t.rows[1].balance > 0
    /\ AmountOf(t) > t.rows[1].balance
    /\ AmountOf(t) < t.rows[1].balance + t.rows[2].balance

(* C7: a SUCCESS resolution whose amount exceeds the sum of the unpaid      *)
(* balances it applies to leaves each of those statements at 0 and paid,   *)
(* writes no other statement, makes no balance negative and changes no     *)
(* Payment but its own status and external id.                             *)
OverpayDiscarded ==
  [][\A t \in txs :
       (Commits(t) /\ t.status = "SUCCESS" /\ AmountOf(t) > SumBalances(t.rows)) =>
         /\ \A s \in RowIds(t.rows) :
              statements'[s].isPaid /\ statements'[s].balance = 0
         /\ \A s \in StmtIds \ RowIds(t.rows) : statements'[s] = statements[s]
         /\ \A s \in StmtIds : statements'[s].balance >= 0
         /\ \A p \in DOMAIN payments :
              /\ payments'[p].amount = payments[p].amount
              /\ p # t.paymentId => payments'[p] = payments[p]]_vars

(* a SUCCESS resolution holds more than the unpaid balances it read *)
OverpayPending ==
  \E t \in txs :
    /\ t.status = "SUCCESS"
    /\ t.rows # <<>>
    /\ SumBalances(t.rows) > 0
    /\ AmountOf(t) > SumBalances(t.rows)

(* requests of the owner of an ACTIVE card, with a known method *)
OwnerRequests ==
  {req \in Requests :
     /\ req.method \in Methods
     /\ FindCard(req.cardId, req.userId) # NoCard
     /\ FindCard(req.cardId, req.userId).status = "ACTIVE"}

ValidationErrors == {"VALIDATION_ERROR", "ValidationError"}

(* C8 as stated: on an ACTIVE card of the requester an amount equal to the *)
(* outstanding balance is accepted, one unit more is rejected with a       *)
(* validation error, an amount of 0 or less is rejected.                   *)
BoundaryAsStated ==
  \A req \in OwnerRequests :
    LET out == Outstanding(statements, req.cardId) IN
    /\ req.amount = out => Validate(req, statements) = "passed"
    /\ req.amount = out + 1 => Validate(req, statements) \in ValidationErrors
    /\ req.amount <= 0 => Validate(req, statements) \in Rejections

(* C8 amended: an amount equal to the outstanding balance is accepted when *)
(* that balance is positive and at most 1,000,000; one unit more is        *)
(* rejected with a validation error; an amount of 0 or less is rejected.   *)
ValidationBoundary ==
  \A req \in OwnerRequests :
    LET out == Outstanding(statements, req.cardId) IN
    /\ (req.amount = out /\ out > 0 /\ out <= AmountCap)
         => Validate(req, statements) = "passed"
    /\ req.amount = out + 1 => Validate(req, statements) \in ValidationErrors
    /\ req.amount <= 0 => Validate(req, statements) \in Rejections

(* a request for exactly the outstanding balance went past validation, and *)
(* the card has been paid down before                                      *)
BoundaryAccepted ==
  /\ inflight # NoRequest
  /\ inflight.req.amount = inflight.outstandingBalance
  /\ \E p \in DOMAIN payments :
       payments[p].status = "SUCCESS" /\ payments[p].cardId = inflight.req.cardId

(* C9: a create request that is rejected stores no Payment, schedules no   *)
(* resolution and leaves every statement as it was.                        *)
RejectionChangesNothing ==
  [][(last'.op = "create" /\ last'.kind \in Rejections) =>
       UNCHANGED <<payments, timers, statements, txs, inflight, keyed>>]_vars

(* a request over the outstanding balance was rejected after a Payment had *)
(* been stored                                                             *)
RejectedAfterPayment ==
  /\ last.op = "create"
  /\ last.kind = "ValidationError"
  /\ payments # <<>>

(* C10: a failed audit-activity write does not end a resolution in error;   *)
(* the resolution commits, the Payment is SUCCESS and the statements are   *)
(* those the loop computes from the rows read.                             *)
AuditFailureIsolated ==
  [][/\ last'.kind = "error" => \E t \in txs : t \notin txs'
     /\ \A t \in txs :
          (t.auditFailed /\ t.status = "SUCCESS" /\ t \notin txs' /\ last'.kind # "error") =>
            /\ payments'[t.paymentId].status = "SUCCESS"
            /\ statements' = ApplyUpdates(statements, StatementLoop(t.rows, AmountOf(t)))
            /\ last' = Outcome(t.source, "ok", t.paymentId, "SUCCESS", 0)]_vars

(* a SUCCESS resolution committed although its audit write had failed *)
AuditFailedCommitted ==
  /\ last.kind = "ok"
  /\ last.status = "SUCCESS"
  /\ payments[last.paymentId].status = "SUCCESS"
  /\ notifications[last.paymentId] = 1
  /\ activities[last.paymentId] = 0
  /\ \E s \in StmtIds : statements[s].isPaid

(* C11: a create request that is accepted as new appends one Payment in     *)
(* PENDING, leaves the other Payments and every statement as they were,    *)
(* answers "pending" with the outstanding balance read at validation, and  *)
(* only schedules the resolution: no transaction is opened by the handler. *)
CreationLeavesPending ==
  [][last'.kind = "created" =>
       LET pid == last'.paymentId IN
       /\ Len(payments') = Len(payments) + 1
       /\ pid = Len(payments')
       /\ \A q \in DOMAIN payments : payments'[q] = payments[q]
       /\ payments'[pid].status = "PENDING"
       /\ statements' = statements
       /\ last'.status = "pending"
       /\ last'.newBalance = inflight.outstandingBalance
       /\ timers' = timers \cup {pid}
       /\ txs' = txs]_vars

(* a Payment was just created and answered with a balance that a resolution *)
(* committed since validation has already reduced                          *)
CreatedOnStaleBalance ==
  /\ last.kind = "created"
  /\ last.status = "pending"
  /\ last.newBalance > Outstanding(statements, payments[last.paymentId].cardId)

(* C14: every statement that is marked paid has balance 0, in every         *)
(* reachable state.                                                        *)
PaidImpliesZero ==
  \A s \in StmtIds : statements[s].isPaid => statements[s].balance = 0

(* sum of the balances of the statements of a card, paid or not *)
RECURSIVE SumOfCard(_, _, _)
SumOfCard(stmts, cardId, ids) ==
  IF ids = {} THEN 0
  ELSE LET e == CHOOSE x \in ids : TRUE
       IN (IF stmts[e].cardId = cardId THEN stmts[e].balance ELSE 0)
          + SumOfCard(stmts, cardId, ids \ {e})

(* C15: a SUCCESS resolution whose amount A is at most the sum of the       *)
(* unpaid balances of the card, both as it read them and as they are       *)
(* committed when it applies, reduces the balances of the card's           *)
(* statements by exactly A in total.                                       *)
ReductionEqualsAmount ==
  [][\A t \in txs :
       (/\ Commits(t) /\ t.status = "SUCCESS"
        /\ AmountOf(t) <= SumBalances(t.rows)
        /\ AmountOf(t) <= Outstanding(statements, CardOf(t)))
         => SumOfCard(statements, CardOf(t), StmtIds)
              - SumOfCard(statements', CardOf(t), StmtIds) = AmountOf(t)]_vars

(* C16: for each Payment at most one notification and at most one audit     *)
(* Activity are written, whatever resolutions arrive for it.               *)
SideEffectsAtMostOnce ==
  \A p \in DOMAIN payments : notifications[p] <= 1 /\ activities[p] <= 1

(* C18: a notification or an Activity of a Payment is written only by the   *)
(* step that commits the transaction of its resolution.                    *)
EffectsAfterCommit ==
  [][\A p \in DOMAIN payments :
       (notifications'[p] # notifications[p] \/ activities'[p] # activities[p])
         => \E t \in txs : t.paymentId = p /\ Commits(t)]_vars

(* C12: when the transaction of a resolution ends without committing, no    *)
(* Payment and no statement is changed, and the error leaves               *)
(* processPayment towards the caller that started the resolution (the      *)
(* webhook handler passes it on, the timer callback logs it).              *)
AbortLeavesNoTrace ==
  [][\A t \in txs :
       (t \notin txs' /\ ~Commits(t)) =>
         /\ payments' = payments
         /\ statements' = statements
         /\ last'.kind = "error"
         /\ last'.op = t.source
         /\ last'.paymentId = t.paymentId]_vars

(* the SUCCESS resolution a webhook started for a pending Payment with an   *)
(* unpaid balance to apply to was rolled back                              *)
WebhookRolledBack ==
  /\ last.kind = "error"
  /\ last.op = "webhook"
  /\ payments[last.paymentId].status = "PENDING"
  /\ Outstanding(statements, payments[last.paymentId].cardId)
       >= payments[last.paymentId].amount
  /\ notifications[last.paymentId] = 1

(* C13: when the idempotency lookup finds a Payment stored with the key of   *)
(* the request, the response carries that Payment's id, amount, method and *)
(* lower-cased status and the outstanding balance summed from the unpaid   *)
(* statements as they are now; no Payment is added, no resolution is       *)
(* scheduled or started and no statement is changed.                       *)
ReplayReturnsExisting ==
  [][last'.kind = "idempotent" =>
       LET e == last'.paymentId IN
       /\ e \in DOMAIN payments
       /\ payments[e].idempotencyKey = inflight.req.key
       /\ last'.amount = payments[e].amount
       /\ last'.method = payments[e].method
       /\ payments[e].status = "PENDING" => last'.status = "pending"
       /\ payments[e].status = "SUCCESS" => last'.status = "success"
       /\ payments[e].status = "FAILED" => last'.status = "failed"
       /\ last'.newBalance =
            SumOfCard([s \in StmtIds |->
                         IF statements[s].isPaid
                         THEN [statements[s] EXCEPT !.balance = 0]
                         ELSE statements[s]],
                      inflight.req.cardId, StmtIds)
       /\ payments' = payments
       /\ timers' = timers
       /\ txs' = txs
       /\ statements' = statements]_vars

(* a keyed request was answered with the stored Payment after that         *)
(* Payment had settled and paid off a statement                            *)
ReplayedAfterSettlement ==
  /\ last.kind = "idempotent"
  /\ last.paymentId = 1
  /\ last.status = "success"
  /\ \E s \in StmtIds : statements[s].isPaid

CreatedPending ==
  [][\A p \in DOMAIN payments' :
       p \notin DOMAIN payments => payments'[p].status = "PENDING"]_vars

(* C20: a create request that was accepted with an Idempotency-Key is not   *)
(* rejected by validation when it is sent again, whatever the outstanding  *)
(* balance of the card has become.                                         *)
GuardBeforeValidation ==
  \A k \in keyed : Validate(k.req, statements) \notin Rejections

(* C21: a create request that passed validation is always answered with a   *)
(* creation or a replay, never with an error of the idempotency lookup;    *)
(* when it is not a replay, one Payment in PENDING is added and the        *)
(* response is the normal one ("pending", the id of the new Payment).      *)
LookupFailureTolerated ==
  [][(inflight # NoRequest /\ inflight' = NoRequest) =>
       /\ last'.op = "create"
       /\ last'.kind \in {"created", "idempotent"}
       /\ last'.kind = "created" =>
            /\ Len(payments') = Len(payments) + 1
            /\ last'.paymentId = Len(payments')
            /\ payments'[Len(payments')].status = "PENDING"
            /\ last'.status = "pending"
       /\ last'.kind = "idempotent" => payments' = payments]_vars

(* a request whose key a stored Payment carries was answered with a new     *)
(* Payment: its lookup threw                                               *)
CreatedDespiteStoredKey ==
  /\ last.kind = "created"
  /\ \E k \in keyed :
       /\ k.paymentId = last.paymentId
       /\ \E p \in DOMAIN payments : payments[p].idempotencyKey = k.req.key

(* C22: the committed statements and Payment statuses, which are what the  *)
(* balance validation of a create request and the findMany of another      *)
(* resolution read, change only in the step that commits a resolution, and *)
(* that step applies the status of the resolution together with every one  *)
(* of its statement updates: no state in between is visible.               *)
AtomicVisibility ==
  [][/\ (\/ statements' # statements
          \/ \E p \in DOMAIN payments : payments'[p].status # payments[p].status) =>
          \E t \in txs :
            /\ Commits(t)
            /\ payments'[t.paymentId].status = t.status
            /\ statements' = ApplyUpdates(statements, StatementLoop(t.rows, AmountOf(t)))
     /\ (inflight = NoRequest /\ inflight' # NoRequest) =>
          inflight'.outstandingBalance = Outstanding(statements, inflight'.req.cardId)
     /\ \A t \in txs' \ txs :
          t.status = "SUCCESS" => t.rows = FindUnpaid(statements, CardOf(t))]_vars

(* a resolution with two statement updates committed while a create request *)
(* that had read the balances before it was still in flight                *)
CommittedUnderReader ==
  /\ last.kind = "ok"
  /\ last.status = "SUCCESS"
  /\ inflight # NoRequest
  /\ inflight.req.cardId = payments[last.paymentId].cardId
  /\ inflight.outstandingBalance # Outstanding(statements, inflight.req.cardId)
  /\ \A s \in StmtIds :
       statements[s].cardId = inflight.req.cardId => statements[s].isPaid

FailedChangesPaymentOnly ==
  [][\A t \in txs :
       (Commits(t) /\ t.status = "FAILED") =>
         /\ statements' = statements
         /\ DOMAIN payments' = DOMAIN payments
         /\ \A p \in DOMAIN payments :
              IF p = t.paymentId
              THEN /\ payments'[p].status = "FAILED"
                   /\ payments'[p] = [payments[p] EXCEPT
                                        !.status = payments'[p].status,
                                        !.externalId = payments'[p].externalId]
              ELSE payments'[p] = payments[p]]_vars

(* a resolution to FAILED committed for a Payment whose card has unpaid     *)
(* balances that its amount could have paid                                *)
FailedCommittedWithDebt ==
  /\ last.kind = "ok"
  /\ last.status = "FAILED"
  /\ payments[last.paymentId].status = "FAILED"
  /\ payments[last.paymentId].cardId # 0
  /\ Outstanding(statements, payments[last.paymentId].cardId)
       >= payments[last.paymentId].amount

(* processPayment run alone to its commit for a SUCCESS of Payment p *)
SerialSuccess(stmts, p) ==
  ApplyUpdates(stmts,
               StatementLoop(FindUnpaid(stmts, payments[p].cardId), payments[p].amount))

(* C25: for any two Payments of the same card, resolving both to SUCCESS    *)
(* one after the other from the committed statements gives the same        *)
(* balances and paid flags in either order.                                *)
OrderIndependent ==
  \A p, q \in DOMAIN payments :
    payments[p].cardId = payments[q].cardId =>
      SerialSuccess(SerialSuccess(statements, p), q)
        = SerialSuccess(SerialSuccess(statements, q), p)

(* C26: no step raises the balance of a statement: every balance is at     *)
(* most what it was in the committed state before.                         *)
BalancesNeverIncrease ==
  [][\A s \in StmtIds : statements'[s].balance <= statements[s].balance]_vars

(* C27: a statement that is paid with balance 0 is left as it is by every   *)
(* later step.                                                             *)
PaidStatementFrozen ==
  [][\A s \in StmtIds :
       (statements[s].isPaid /\ statements[s].balance = 0) =>
         statements'[s] = statements[s]]_vars

(* C28: the commit of a SUCCESS resolution leaves every statement of a card *)
(* other than the card of its Payment as it was.                           *)
OtherCardsUntouched ==
  [][\A t \in txs :
       (Commits(t) /\ t.status = "SUCCESS") =>
         \A s \in StmtIds :
           statements[s].cardId # CardOf(t) => statements'[s] = statements[s]]_vars

(* a SUCCESS resolution lowered a balance of card 2 while card 1 has unpaid *)
(* balances, all of them as they were at the start                         *)
PaidOneCardOfTwo ==
  /\ last.kind = "ok"
  /\ last.status = "SUCCESS"
  /\ payments[last.paymentId].cardId = 2
  /\ \E s \in StmtIds : statements[s].cardId = 2 /\ statements[s].balance <= AmountCap
  /\ \A s \in StmtIds :
       statements[s].cardId = 1 =>
         ~statements[s].isPaid /\ statements[s].balance = MaxBalance

(* C29: the step in which the verify route records its Payment stores it   *)
(* in SUCCESS and leaves every statement as it was, so that the unpaid sum *)
(* of the card is the same after the call as before it.                    *)
VerifyLeavesStatements ==
  [][\A p \in DOMAIN payments' \ DOMAIN payments :
       payments'[p].method = "razorpay" =>
         /\ last'.op = "verify"
         /\ payments'[p].status = "SUCCESS"
         /\ statements' = statements
         /\ \A c \in DOMAIN CardRows :
              Outstanding(statements', c) = Outstanding(statements, c)]_vars

(* the verify route recorded a Payment in SUCCESS on a card whose unpaid    *)
(* balances, all still as at the start, its amount could have paid         *)
VerifiedWithDebt ==
  /\ last.op = "verify"
  /\ last.kind = "ok"
  /\ payments[last.paymentId].status = "SUCCESS"
  /\ payments[last.paymentId].cardId = 1
  /\ payments[last.paymentId].amount <= Outstanding(statements, 1)
  /\ \A s \in StmtIds :
       statements[s].cardId = 1 =>
         ~statements[s].isPaid /\ statements[s].balance = MaxBalance

====
